---------------------------- MODULE Spec2Model ----------------------------
(***************************************************************************)
(* A model of crates/day-19 (the workflow engine): the range algebra, the  *)
(* concrete evaluator (apply_workflows, solve1) and the range-splitting    *)
(* evaluator (apply_a_workflow2, solve2).                                  *)
(*                                                                         *)
(* The program fixes the universe of every attribute to                    *)
(* MIN_RANGE..MAX_RANGE = 1..4000.  The upper edge is the state variable   *)
(* maxRange, constant along every behaviour: the fixture specification     *)
(* runs with maxRange = MAX_RANGE, the exhaustive specifications with a    *)
(* scaled-down universe (1..SmallMax, 1..AlgebraMax), so that every record *)
(* and every interval of the universe can be enumerated.  Wherever the     *)
(* source reads MAX_RANGE the model reads maxRange.                        *)
(***************************************************************************)
EXTENDS Integers, Sequences, FiniteSets, TLC

VARIABLES
    maxRange,        \* the universe's upper edge (MAX_RANGE in the source)
    workflows,       \* Vec<Workflow>, the parsed table
    parts,           \* Vec<Part>, the parsed records
    \* ---- solve2 and apply_a_workflow2
    pc2,             \* solve2: "idle" | "pop" | "walk" | "push" | "done" | "err"
    stack2,          \* solve2's stack: Vec<(String, PartRanges)>, top is the last element
    result2,         \* solve2's running total (i64)
    popName2,        \* the name popped by the current iteration
    popRanges2,      \* the box popped by the current iteration
    invalid_ranges,  \* apply_a_workflow2's remainder
    results2,        \* apply_a_workflow2's result vector
    k2,              \* index of the next condition apply_a_workflow2 visits
    rejected2,       \* observer: volume of the boxes dropped at "R"
    reordered2,      \* observer: a pair other than the stack's top was taken
    \* ---- solve1 and apply_workflows
    pc1,             \* solve1: "idle" | "next" | "loop" | "done" | "err"
    i1,              \* index of the record being evaluated
    stack1,          \* apply_workflows' stack of names
    sum1,            \* the sum of the Ok values seen so far
    err1,            \* the error solve1 returns, "" when none
    visited1,        \* observer: the names apply_workflows popped for this record
    \* ---- range algebra applied to drawn inputs
    pcA,             \* "idle", or which function is applied / was applied
    argA,            \* the drawn input
    outA             \* the function's result

vars == <<maxRange, workflows, parts, pc2, stack2, result2, popName2, popRanges2,
          invalid_ranges, results2, k2, rejected2, reordered2, pc1, i1, stack1,
          sum1, err1, visited1, pcA, argA, outA>>

vars2 == <<pc2, stack2, result2, popName2, popRanges2, invalid_ranges, results2,
           k2, rejected2, reordered2>>
vars1 == <<pc1, i1, stack1, sum1, err1, visited1>>
varsA == <<pcA, argA, outA>>

(***************************************************************************)
(* Program constants.                                                      *)
(***************************************************************************)
MIN_RANGE == 1
MAX_RANGE == 4000

(***************************************************************************)
(* Bounds of the exhaustive specifications.                                *)
(***************************************************************************)
SmallMax == 3        \* the scaled-down universe is 1..SmallMax
MaxParts == 2        \* records handed to solve1

(***************************************************************************)
(* i64 values that may exceed the model checker's native integers (the     *)
(* volumes, up to 4000^4) are little-endian sequences of base-10000 limbs  *)
(* without leading zero limbs; zero is the empty sequence.  No value the   *)
(* program computes here leaves the i64 range, so the width is not         *)
(* modelled.                                                               *)
(***************************************************************************)
Base == 100 * 100

RECURSIVE Normal(_)
Normal(w) ==
    IF w = <<>> THEN <<>>
    ELSE IF w[Len(w)] = 0 THEN Normal(SubSeq(w, 1, Len(w) - 1))
    ELSE w

RECURSIVE I64(_)
I64(n) == IF n = 0 THEN <<>> ELSE <<n % Base>> \o I64(n \div Base)

RECURSIVE MulLimbs(_, _, _)
MulLimbs(w, c, carry) ==
    IF w = <<>>
    THEN I64(carry)
    ELSE LET t == Head(w) * c + carry
         IN  <<t % Base>> \o MulLimbs(Tail(w), c, t \div Base)

\* w * c for a native 0 <= c < Base
I64Mul(w, c) == Normal(MulLimbs(w, c, 0))

RECURSIVE AddLimbs(_, _, _)
AddLimbs(a, b, carry) ==
    IF a = <<>> /\ b = <<>>
    THEN I64(carry)
    ELSE LET x == IF a = <<>> THEN 0 ELSE Head(a)
             y == IF b = <<>> THEN 0 ELSE Head(b)
             t == x + y + carry
         IN  <<t % Base>> \o AddLimbs(IF a = <<>> THEN a ELSE Tail(a),
                                      IF b = <<>> THEN b ELSE Tail(b),
                                      t \div Base)

I64Add(a, b) == Normal(AddLimbs(a, b, 0))

(***************************************************************************)
(* Data model.                                                             *)
(***************************************************************************)
Category == {"x", "m", "a", "s"}
Comparison == {"LessThan", "GreaterThan"}

Range(lo, hi) == [min |-> lo, max |-> hi]

\* impl Default for Range
DefaultRange == Range(MIN_RANGE, maxRange)

\* impl Default for PartRanges
DefaultPartRanges ==
    [x |-> <<DefaultRange>>, m |-> <<DefaultRange>>,
     a |-> <<DefaultRange>>, s |-> <<DefaultRange>>]

Max2(p, q) == IF p >= q THEN p ELSE q
Min2(p, q) == IF p <= q THEN p ELSE q

possibilities(range) == range.max - range.min + 1

\* the chained iterator x, m, a, s folded by product::<i64>()
RECURSIVE ProductOf(_, _)
ProductOf(rs, acc) ==
    IF rs = <<>> THEN acc
    ELSE ProductOf(Tail(rs), I64Mul(acc, possibilities(Head(rs))))

possibilities_ranges(ranges) ==
    ProductOf(ranges.x \o ranges.m \o ranges.a \o ranges.s, I64(1))

(***************************************************************************)
(* Condition model and range algebra.                                      *)
(***************************************************************************)
Condition(c, cmp, v) == [category |-> c, comparison |-> cmp, value |-> v]

\* to_range with `value` where the source has `value - 1`
to_range_inclusive(condition) ==
    IF condition.comparison = "LessThan"
    THEN Range(MIN_RANGE, Max2(condition.value, MIN_RANGE))
    ELSE Range(Min2(condition.value + 1, maxRange), maxRange)

to_range(condition) ==
    IF condition.comparison = "LessThan"
    THEN Range(MIN_RANGE, Max2(condition.value - 1, MIN_RANGE))
    ELSE Range(Min2(condition.value + 1, maxRange), maxRange)

range_valid(range) == range.min <= range.max

opposite(range) ==
    SelectSeq(<<Range(MIN_RANGE, Max2(range.min - 1, MIN_RANGE)),
                Range(Min2(range.max + 1, maxRange), maxRange)>>,
              range_valid)

\* intersect_range_range taking the smaller of the two minima
intersect_range_range_widens(range1, range2) ==
    LET range == Range(Min2(range1.min, range2.min),
                       Min2(range1.max, range2.max))
    IN  IF range_valid(range) THEN <<range>> ELSE <<>>

\* Option<Range>: <<>> is None, <<r>> is Some(r)
intersect_range_range(range1, range2) ==
    LET range == Range(Max2(range1.min, range2.min),
                       Min2(range1.max, range2.max))
    IN  IF range_valid(range) THEN <<range>> ELSE <<>>

RECURSIVE intersect_ranges_range(_, _)
intersect_ranges_range(ranges, range) ==
    IF ranges = <<>> THEN <<>>
    ELSE intersect_range_range(Head(ranges), range)
         \o intersect_ranges_range(Tail(ranges), range)

RECURSIVE intersect_ranges_ranges(_, _)
intersect_ranges_ranges(ranges1, ranges2) ==
    IF ranges1 = <<>> THEN <<>>
    ELSE intersect_ranges_range(ranges2, Head(ranges1))
         \o intersect_ranges_ranges(Tail(ranges1), ranges2)

intersect_part_ranges(ranges1, ranges2) ==
    [x |-> intersect_ranges_ranges(ranges1.x, ranges2.x),
     m |-> intersect_ranges_ranges(ranges1.m, ranges2.m),
     a |-> intersect_ranges_ranges(ranges1.a, ranges2.a),
     s |-> intersect_ranges_ranges(ranges1.s, ranges2.s)]

(***************************************************************************)
(* Workflows.  A workflow is [name, conditions, fallback]; conditions is a *)
(* sequence of [condition, next] pairs.                                    *)
(***************************************************************************)
Workflow(n, cs, f) == [name |-> n, conditions |-> cs, fallback |-> f]
Rule(cond, target) == [condition |-> cond, next |-> target]

\* HashMap::from_iter: a later entry replaces an earlier one of the same name
workflow_get_map(ws) ==
    LET names == {ws[i].name : i \in DOMAIN ws}
        last(n) == CHOOSE i \in DOMAIN ws :
                      /\ ws[i].name = n
                      /\ \A j \in DOMAIN ws : ws[j].name = n => j <= i
    IN  [n \in names |-> ws[last(n)]]

\* the closure handed to find()
Satisfies(part, condition) ==
    IF condition.comparison = "LessThan"
    THEN part[condition.category] < condition.value
    ELSE part[condition.category] > condition.value

\* find() returning the last satisfied condition instead of the first
RECURSIVE FindLast(_, _)
FindLast(part, conditions) ==
    IF conditions = <<>> THEN <<>>
    ELSE LET later == FindLast(part, Tail(conditions))
         IN  IF later # <<>> THEN later
             ELSE IF Satisfies(part, Head(conditions).condition)
                  THEN <<Head(conditions)>>
                  ELSE <<>>

RECURSIVE FindFirst(_, _)
FindFirst(part, conditions) ==
    IF conditions = <<>> THEN <<>>
    ELSE IF Satisfies(part, Head(conditions).condition)
         THEN <<Head(conditions)>>
         ELSE FindFirst(part, Tail(conditions))

\* a step that selects the workflow it was given
apply_a_workflow1_stays(part, workflow) == workflow.name

apply_a_workflow1(part, workflow) ==
    LET found == FindFirst(part, workflow.conditions)
    IN  IF found = <<>> THEN workflow.fallback ELSE found[1].next

(***************************************************************************)
(* apply_a_workflow2, one condition per step.                              *)
(***************************************************************************)
NoRanges == [x |-> <<>>, m |-> <<>>, a |-> <<>>, s |-> <<>>]

Pair(n, rs) == [name |-> n, ranges |-> rs]

\* the struct update taking the other fields from the default box
WithCategoryOfDefault(part_ranges, category, ranges) ==
    [DefaultPartRanges EXCEPT ![category] = ranges]

\* the struct-update expressions of the four match arms
WithCategory(part_ranges, category, ranges) ==
    CASE category = "x" -> [part_ranges EXCEPT !.x = ranges]
      [] category = "m" -> [part_ranges EXCEPT !.m = ranges]
      [] category = "a" -> [part_ranges EXCEPT !.a = ranges]
      [] category = "s" -> [part_ranges EXCEPT !.s = ranges]

\* the sub-box the closure returns for one condition
MatchedRanges(invalid, condition) ==
    WithCategory(invalid, condition.category,
                 intersect_ranges_range(invalid[condition.category],
                                        to_range(condition)))

\* the remainder extended by the opposite instead of intersected with it
NextInvalidAppends(invalid, condition) ==
    [invalid EXCEPT ![condition.category] =
        invalid[condition.category] \o opposite(to_range(condition))]

\* invalid_ranges after the closure ran for one condition
NextInvalid(invalid, condition) ==
    [invalid EXCEPT ![condition.category] =
        intersect_ranges_ranges(invalid[condition.category],
                                opposite(to_range(condition)))]

CurrentWorkflow == workflow_get_map(workflows)[popName2]

WalkCondition ==
    /\ pc2 = "walk"
    /\ k2 <= Len(CurrentWorkflow.conditions)
    /\ LET rule == CurrentWorkflow.conditions[k2]
       IN  /\ results2' = Append(results2,
                                 Pair(rule.next,
                                      MatchedRanges(invalid_ranges, rule.condition)))
           /\ invalid_ranges' = NextInvalid(invalid_ranges, rule.condition)
    /\ k2' = k2 + 1
    /\ UNCHANGED <<maxRange, workflows, parts, pc2, stack2, result2, popName2,
                   popRanges2, rejected2, reordered2, vars1, varsA>>

WalkFallback ==
    /\ pc2 = "walk"
    /\ k2 > Len(CurrentWorkflow.conditions)
    /\ results2' = Append(results2, Pair(CurrentWorkflow.fallback, invalid_ranges))
    /\ pc2' = "push"
    /\ UNCHANGED <<maxRange, workflows, parts, stack2, result2, popName2,
                   popRanges2, invalid_ranges, k2, rejected2, reordered2, vars1,
                   varsA>>

(***************************************************************************)
(* solve2.                                                                 *)
(***************************************************************************)
\* the for_each of solve2: what it pushes, in order
RECURSIVE Pushed(_, _)
Pushed(ranges, workflows_and_ranges) ==
    IF workflows_and_ranges = <<>> THEN <<>>
    ELSE LET next == Head(workflows_and_ranges)
             new_ranges == intersect_part_ranges(ranges, next.ranges)
         IN  (IF possibilities_ranges(new_ranges) # I64(0)
              THEN <<Pair(next.name, new_ranges)>>
              ELSE <<>>)
             \o Pushed(ranges, Tail(workflows_and_ranges))

\* a turn that pushes nothing and walks the popped workflow again
Solve2PushRewalks ==
    /\ pc2 = "push"
    /\ pc2' = "walk"
    /\ invalid_ranges' = DefaultPartRanges
    /\ results2' = <<>>
    /\ k2' = 1
    /\ UNCHANGED <<maxRange, workflows, parts, stack2, result2, popName2,
                   popRanges2, rejected2, reordered2, vars1, varsA>>

Solve2Push ==
    /\ pc2 = "push"
    /\ stack2' = stack2 \o Pushed(popRanges2, results2)
    /\ pc2' = "pop"
    /\ popName2' = ""
    /\ popRanges2' = NoRanges
    /\ invalid_ranges' = NoRanges
    /\ results2' = <<>>
    /\ k2' = 0
    /\ UNCHANGED <<maxRange, workflows, parts, result2, rejected2, reordered2,
                   vars1, varsA>>

\* one turn of `while let Some((name, ranges)) = stack.pop()`, up to the call
\* of apply_a_workflow2; the loop's exit returns Ok(result)
Solve2Iterate ==
    /\ pc2 = "pop"
    /\ IF stack2 = <<>>
       THEN /\ pc2' = "done"
            /\ UNCHANGED <<stack2, result2, popName2, popRanges2, invalid_ranges,
                           results2, k2, rejected2>>
       ELSE LET top == stack2[Len(stack2)]
            IN  /\ stack2' = SubSeq(stack2, 1, Len(stack2) - 1)
                /\ CASE top.name = "R" ->
                          /\ rejected2' = I64Add(rejected2,
                                                 possibilities_ranges(top.ranges))
                          /\ UNCHANGED <<pc2, result2, popName2, popRanges2,
                                         invalid_ranges, results2, k2>>
                     [] top.name = "A" ->
                          /\ result2' = I64Add(result2,
                                               possibilities_ranges(top.ranges))
                          /\ UNCHANGED <<pc2, rejected2, popName2, popRanges2,
                                         invalid_ranges, results2, k2>>
                     [] top.name \notin {"R", "A"}
                        /\ top.name \notin DOMAIN workflow_get_map(workflows) ->
                          /\ pc2' = "err"
                          /\ popName2' = top.name
                          /\ UNCHANGED <<result2, rejected2, popRanges2,
                                         invalid_ranges, results2, k2>>
                     [] OTHER ->
                          /\ pc2' = "walk"
                          /\ popName2' = top.name
                          /\ popRanges2' = top.ranges
                          /\ invalid_ranges' = DefaultPartRanges
                          /\ results2' = <<>>
                          /\ k2' = 1
                          /\ UNCHANGED <<result2, rejected2>>
    /\ UNCHANGED <<maxRange, workflows, parts, reordered2, vars1, varsA>>

(***************************************************************************)
(* apply_a_workflow2 and solve2 as functions: the walk and the loop run to *)
(* their end.                                                              *)
(***************************************************************************)
\* the map over workflow.conditions, then the push of the fallback
RECURSIVE Walk2(_, _, _, _)
Walk2(conditions, invalid, results, fallback) ==
    IF conditions = <<>>
    THEN Append(results, Pair(fallback, invalid))
    ELSE Walk2(Tail(conditions),
               NextInvalid(invalid, Head(conditions).condition),
               Append(results, Pair(Head(conditions).next,
                                    MatchedRanges(invalid, Head(conditions).condition))),
               fallback)

apply_a_workflow2(workflow) ==
    Walk2(workflow.conditions, DefaultPartRanges, <<>>, workflow.fallback)

\* the while let loop of solve2 from a given stack and result; it returns
\* on an acyclic table
RECURSIVE Solve2Loop(_, _, _)
Solve2Loop(stack, result, name_to_workflow) ==
    IF stack = <<>> THEN [ok |-> result]
    ELSE LET top == stack[Len(stack)]
             rest == SubSeq(stack, 1, Len(stack) - 1)
         IN  CASE top.name = "R" -> Solve2Loop(rest, result, name_to_workflow)
               [] top.name = "A" ->
                     Solve2Loop(rest,
                                I64Add(result, possibilities_ranges(top.ranges)),
                                name_to_workflow)
               [] top.name \notin {"R", "A"}
                  /\ top.name \notin DOMAIN name_to_workflow ->
                     [err |-> "missing workflow"]
               [] OTHER ->
                     Solve2Loop(rest \o Pushed(top.ranges,
                                               apply_a_workflow2(name_to_workflow[top.name])),
                                result, name_to_workflow)

solve2(ws) ==
    Solve2Loop(<<Pair("in", DefaultPartRanges)>>, I64(0), workflow_get_map(ws))

(***************************************************************************)
(* The worklist of solve2 with the removal left open: a turn takes any     *)
(* pending pair, not only the one stack.pop() returns.                     *)
(***************************************************************************)
\* removal that also discards the pairs above the one taken
RemoveAtTruncates(stack, i) == SubSeq(stack, 1, i - 1)

\* the worklist without its i-th pair; stack.pop() is RemoveAt(stack, Len(stack))
RemoveAt(stack, i) == SubSeq(stack, 1, i - 1) \o SubSeq(stack, i + 1, Len(stack))

Solve2IterateAny ==
    /\ pc2 = "pop"
    /\ IF stack2 = <<>>
       THEN /\ pc2' = "done"
            /\ UNCHANGED <<stack2, result2, popName2, popRanges2, invalid_ranges,
                           results2, k2, rejected2, reordered2>>
       ELSE \E i \in DOMAIN stack2 :
              LET top == stack2[i]
              IN  /\ stack2' = RemoveAt(stack2, i)
                  /\ reordered2' = (reordered2 \/ i # Len(stack2))
                  /\ CASE top.name = "R" ->
                            /\ rejected2' = I64Add(rejected2,
                                                   possibilities_ranges(top.ranges))
                            /\ UNCHANGED <<pc2, result2, popName2, popRanges2,
                                           invalid_ranges, results2, k2>>
                       [] top.name = "A" ->
                            /\ result2' = I64Add(result2,
                                                 possibilities_ranges(top.ranges))
                            /\ UNCHANGED <<pc2, rejected2, popName2, popRanges2,
                                           invalid_ranges, results2, k2>>
                       [] top.name \notin {"R", "A"}
                          /\ top.name \notin DOMAIN workflow_get_map(workflows) ->
                            /\ pc2' = "err"
                            /\ popName2' = top.name
                            /\ UNCHANGED <<result2, rejected2, popRanges2,
                                           invalid_ranges, results2, k2>>
                       [] OTHER ->
                            /\ pc2' = "walk"
                            /\ popName2' = top.name
                            /\ popRanges2' = top.ranges
                            /\ invalid_ranges' = DefaultPartRanges
                            /\ results2' = <<>>
                            /\ k2' = 1
                            /\ UNCHANGED <<result2, rejected2>>
    /\ UNCHANGED <<maxRange, workflows, parts, vars1, varsA>>

(***************************************************************************)
(* apply_workflows and solve1.                                             *)
(***************************************************************************)
\* LoopTurn with an unknown name treated as the reject sink
LoopTurnUnknownRejects(part, stack, name_to_workflow) ==
    LET name == stack[Len(stack)]
        rest == SubSeq(stack, 1, Len(stack) - 1)
    IN  CASE name = "R" -> [returns |-> "Ok(false)"]
          [] name = "A" -> [returns |-> "Ok(true)"]
          [] name \notin {"R", "A"} /\ name \notin DOMAIN name_to_workflow ->
                [returns |-> "Ok(false)"]
          [] OTHER ->
                [stack |-> Append(rest, apply_a_workflow1(part, name_to_workflow[name]))]

\* LoopTurn without the push of the next name
LoopTurnWithoutPush(part, stack, name_to_workflow) ==
    LET name == stack[Len(stack)]
        rest == SubSeq(stack, 1, Len(stack) - 1)
    IN  CASE name = "R" -> [returns |-> "Ok(false)"]
          [] name = "A" -> [returns |-> "Ok(true)"]
          [] name \notin {"R", "A"} /\ name \notin DOMAIN name_to_workflow ->
                [returns |-> "missing workflow"]
          [] OTHER -> [stack |-> rest]

\* LoopTurn with a visited set: a name popped before ends the walk
LoopTurnStopsOnRevisit(part, stack, name_to_workflow) ==
    LET name == stack[Len(stack)]
        rest == SubSeq(stack, 1, Len(stack) - 1)
    IN  CASE name = "R" -> [returns |-> "Ok(false)"]
          [] name = "A" -> [returns |-> "Ok(true)"]
          [] name \notin {"R", "A"} /\ name \notin DOMAIN name_to_workflow ->
                [returns |-> "missing workflow"]
          [] name \notin {"R", "A"} /\ name \in DOMAIN name_to_workflow
             /\ name \in visited1 ->
                [returns |-> "cyclic workflow"]
          [] OTHER ->
                [stack |-> Append(rest, apply_a_workflow1(part, name_to_workflow[name]))]

\* one turn of `while let Some(name) = stack.pop()`: either the value
\* apply_workflows returns, or the stack the next turn starts from
LoopTurn(part, stack, name_to_workflow) ==
    LET name == stack[Len(stack)]
        rest == SubSeq(stack, 1, Len(stack) - 1)
    IN  CASE name = "R" -> [returns |-> "Ok(false)"]
          [] name = "A" -> [returns |-> "Ok(true)"]
          [] name \notin {"R", "A"} /\ name \notin DOMAIN name_to_workflow ->
                [returns |-> "missing workflow"]
          [] OTHER ->
                [stack |-> Append(rest, apply_a_workflow1(part, name_to_workflow[name]))]

\* The loop run to its end.  The walk of one record is deterministic, so a
\* walk of more turns than the table has names (plus the sink) has met a
\* workflow twice and never returns: "diverges".
RECURSIVE WhileLet(_, _, _, _)
WhileLet(part, stack, name_to_workflow, fuel) ==
    IF stack = <<>> THEN "no workflow found"
    ELSE IF fuel = 0 THEN "diverges"
    ELSE LET turn == LoopTurn(part, stack, name_to_workflow)
         IN  IF "returns" \in DOMAIN turn THEN turn.returns
             ELSE WhileLet(part, turn.stack, name_to_workflow, fuel - 1)

apply_workflows(part, ws) ==
    WhileLet(part, <<"in">>, workflow_get_map(ws), Len(ws) + 2)

\* FilterMap without the filter: a rejected record yields its sum too
FilterMapKeepsRejected(accepted, part) ==
    CASE accepted \in {"Ok(false)", "Ok(true)"} ->
            <<[ok |-> part.x + part.m + part.a + part.s]>>
      [] OTHER -> <<[err |-> accepted]>>

\* FilterMap with the error arm yielding None
FilterMapDropsErrors(accepted, part) ==
    CASE accepted = "Ok(true)" -> <<[ok |-> part.x + part.m + part.a + part.s]>>
      [] OTHER -> <<>>

\* the closure solve1 hands to filter_map: None is <<>>, Some(v) is <<v>>
FilterMap(accepted, part) ==
    CASE accepted = "Ok(false)" -> <<>>
      [] accepted = "Ok(true)" -> <<[ok |-> part.x + part.m + part.a + part.s]>>
      [] OTHER -> <<[err |-> accepted]>>

\* solve1 takes the next record, or returns Ok(sum) when none is left
Solve1Next ==
    /\ pc1 = "next"
    /\ IF i1 > Len(parts)
       THEN /\ pc1' = "done"
            /\ UNCHANGED stack1
       ELSE /\ pc1' = "loop"
            /\ stack1' = <<"in">>
    /\ visited1' = {}
    /\ UNCHANGED <<maxRange, workflows, parts, i1, sum1, err1, vars2, varsA>>

\* a sum() that drops an Err item and goes on with the next record
ConsumeSkipsErrors(item) ==
    /\ pc1' = "next"
    /\ i1' = i1 + 1
    /\ sum1' = IF item = <<>> \/ "err" \in DOMAIN item[1] THEN sum1
               ELSE sum1 + item[1].ok
    /\ UNCHANGED err1

\* what sum() does with the item filter_map yields for parts[i1]: an Ok
\* value is added, the first Err ends the iteration and is returned
Consume(item) ==
    IF item # <<>> /\ "err" \in DOMAIN item[1]
    THEN /\ pc1' = "err"
         /\ err1' = item[1].err
         /\ UNCHANGED <<i1, sum1>>
    ELSE /\ pc1' = "next"
         /\ i1' = i1 + 1
         /\ sum1' = IF item = <<>> THEN sum1 ELSE sum1 + item[1].ok
         /\ UNCHANGED err1

\* one turn of apply_workflows' loop for parts[i1]; when it returns, the
\* value goes through solve1's filter_map and sum
ApplyWorkflowsStep ==
    /\ pc1 = "loop"
    /\ IF stack1 = <<>>
       THEN /\ stack1' = <<>>
            /\ UNCHANGED visited1
            /\ Consume(FilterMap("no workflow found", parts[i1]))
       ELSE LET turn == LoopTurn(parts[i1], stack1, workflow_get_map(workflows))
            IN  /\ visited1' = visited1 \cup {stack1[Len(stack1)]}
                /\ IF "returns" \notin DOMAIN turn
                   THEN /\ stack1' = turn.stack
                        /\ UNCHANGED <<pc1, i1, sum1, err1>>
                   ELSE /\ stack1' = <<>>
                        /\ Consume(FilterMap(turn.returns, parts[i1]))
    /\ UNCHANGED <<maxRange, workflows, parts, vars2, varsA>>

(***************************************************************************)
(* The tables of the exhaustive specifications: every threshold from below *)
(* the universe to above it; "zz" is a name no table defines.  These       *)
(* tables are acyclic: on a cyclic table solve2 does not terminate.        *)
(***************************************************************************)
ConditionsOn(categories) ==
    {Condition(c, cmp, v) :
        c \in categories, cmp \in Comparison, v \in 0..(SmallMax + 1)}

\* one workflow of one condition: every category, every target
TablesOne ==
    {<<Workflow("in", <<Rule(c1, t1)>>, f)>> :
        c1 \in ConditionsOn(Category),
        t1 \in {"A", "R", "zz"}, f \in {"A", "R", "zz"}}

\* one workflow of two conditions
TablesTwoConditions ==
    {<<Workflow("in", <<Rule(c1, t1), Rule(c2, t2)>>, f)>> :
        c1 \in ConditionsOn({"x", "a"}), c2 \in ConditionsOn({"x", "a"}),
        t1 \in {"A", "R"}, t2 \in {"A", "R"}, f \in {"A", "R"}}

\* two workflows; "in" may route to "b" or leave it out of reach
TablesTwoWorkflows ==
    {<<Workflow("b", <<Rule(c3, t3)>>, f3), Workflow("in", <<Rule(c1, t1)>>, f1)>> :
        c1 \in ConditionsOn({"x", "a"}), c3 \in ConditionsOn({"x", "a"}),
        t1 \in {"b", "A"}, f1 \in {"A", "R", "b"},
        t3 \in {"A", "R", "zz"}, f3 \in {"A", "R"}}

SmallTables == TablesOne \cup TablesTwoConditions \cup TablesTwoWorkflows

\* tables handed to solve1: they may be cyclic and may name "zz"
ConcreteTables ==
    TablesTwoConditions
    \cup {<<Workflow("b", <<Rule(c3, t3)>>, f3), Workflow("in", <<Rule(c1, "b")>>, f1)>> :
            c1 \in ConditionsOn({"x"}), c3 \in ConditionsOn({"a"}),
            f1 \in {"A", "R", "zz"}, t3 \in {"A", "in", "zz"}, f3 \in {"R", "in", "b"}}

Part(vx, vm, va, vs) == [x |-> vx, m |-> vm, a |-> va, s |-> vs]

PartPool == {Part(1, 2, SmallMax, 2), Part(SmallMax, 1, 1, SmallMax)}

RECURSIVE SeqsUpTo(_, _)
SeqsUpTo(S, n) ==
    IF n = 0 THEN {<<>>}
    ELSE LET shorter == SeqsUpTo(S, n - 1)
         IN  shorter \cup {Append(q, e) : q \in shorter, e \in S}

Idle1 ==
    /\ pc1 = "idle"
    /\ i1 = 0
    /\ stack1 = <<>>
    /\ sum1 = 0
    /\ err1 = ""
    /\ visited1 = {}

\* solve1's state before its first record
Start1 ==
    /\ pc1 = "next"
    /\ i1 = 1
    /\ stack1 = <<>>
    /\ sum1 = 0
    /\ err1 = ""
    /\ visited1 = {}

IdleA ==
    /\ pcA = "idle"
    /\ argA = <<>>
    /\ outA = <<>>

Idle2 ==
    /\ pc2 = "idle"
    /\ stack2 = <<>>
    /\ result2 = I64(0)
    /\ popName2 = ""
    /\ popRanges2 = NoRanges
    /\ invalid_ranges = NoRanges
    /\ results2 = <<>>
    /\ k2 = 0
    /\ rejected2 = I64(0)
    /\ reordered2 = FALSE

\* solve2's state before its loop
Start2 ==
    /\ pc2 = "pop"
    /\ stack2 = <<Pair("in", DefaultPartRanges)>>
    /\ result2 = I64(0)
    /\ popName2 = ""
    /\ popRanges2 = NoRanges
    /\ invalid_ranges = NoRanges
    /\ results2 = <<>>
    /\ k2 = 0
    /\ rejected2 = I64(0)
    /\ reordered2 = FALSE

(***************************************************************************)
(* Spec: main on the small tables, universe 1..SmallMax.  main runs solve2 *)
(* (argument -2) or solve1 (argument -1) on what parse returned.           *)
(***************************************************************************)
InitRange ==
    /\ maxRange = SmallMax
    /\ workflows \in SmallTables
    /\ parts = <<>>
    /\ Start2
    /\ Idle1
    /\ IdleA

InitConcrete ==
    /\ maxRange = SmallMax
    /\ workflows \in ConcreteTables
    /\ parts \in SeqsUpTo(PartPool, MaxParts)
    /\ Start1
    /\ Idle2
    /\ IdleA

Init == InitRange \/ InitConcrete

Next ==
    \/ Solve2Iterate
    \/ WalkCondition
    \/ WalkFallback
    \/ Solve2Push
    \/ Solve1Next
    \/ ApplyWorkflowsStep

Spec == Init /\ [][Next]_vars

(***************************************************************************)
(* SpecConcrete: solve1 alone, on the tables of InitConcrete and on tables *)
(* that lack the entry workflow "in".  solve1 is sequential code that      *)
(* never waits: whenever a step is possible it is taken.                   *)
(***************************************************************************)
TablesWithoutEntry ==
    {<<Workflow("b", <<Rule(c3, t3)>>, f3)>> :
        c3 \in ConditionsOn({"a"}), t3 \in {"A", "R"}, f3 \in {"A", "R"}}

InitWithoutEntry ==
    /\ maxRange = SmallMax
    /\ workflows \in TablesWithoutEntry
    /\ parts \in SeqsUpTo(PartPool, MaxParts)
    /\ Start1
    /\ Idle2
    /\ IdleA

NextConcrete ==
    \/ Solve1Next
    \/ ApplyWorkflowsStep

InitConcreteOrWithoutEntry == InitConcrete \/ InitWithoutEntry

SpecConcrete ==
    /\ InitConcreteOrWithoutEntry
    /\ [][NextConcrete]_vars
    /\ WF_vars(NextConcrete)

(***************************************************************************)
(* SpecRange: solve2 alone, on the small tables and on tables that lack    *)
(* the entry workflow; like solve1 it never waits.  Its fairness is weak   *)
(* fairness of NextRange with the enabling condition written as a state    *)
(* predicate: a step of NextRange is possible exactly until solve2 has     *)
(* returned (at "pop" a turn starts or the loop exits, at "walk" a         *)
(* condition or the fallback is handled, at "push" the results are         *)
(* pushed, and each of these changes pc2, k2 or stack2).                   *)
(***************************************************************************)
InitRangeWithoutEntry ==
    /\ maxRange = SmallMax
    /\ workflows \in TablesWithoutEntry
    /\ parts = <<>>
    /\ Start2
    /\ Idle1
    /\ IdleA

InitRangeOrWithoutEntry == InitRange \/ InitRangeWithoutEntry

NextRange ==
    \/ Solve2Iterate
    \/ WalkCondition
    \/ WalkFallback
    \/ Solve2Push

Returned2 == pc2 \in {"done", "err"}

SpecRange ==
    /\ InitRangeOrWithoutEntry
    /\ [][NextRange]_vars
    /\ ([]<>Returned2 \/ []<><<NextRange>>_vars)

(***************************************************************************)
(* SpecAnyOrder: solve2 on the small tables with the worklist's removal    *)
(* order left open.                                                        *)
(***************************************************************************)
NextAnyOrder ==
    \/ Solve2IterateAny
    \/ WalkCondition
    \/ WalkFallback
    \/ Solve2Push

SpecAnyOrder == InitRange /\ [][NextAnyOrder]_vars

(***************************************************************************)
(* SpecWide: solve2 on tables whose thresholds run from well below the     *)
(* universe to well above it, where to_range returns intervals that leave  *)
(* the universe.  In the two-workflow tables every record goes through "b" *)
(* with a box that the first workflow has already split.                   *)
(***************************************************************************)
WideConditionsOn(categories) ==
    {Condition(c, cmp, v) :
        c \in categories, cmp \in Comparison,
        v \in (MIN_RANGE - 4)..(SmallMax + 3)}

TablesWideConditions ==
    {<<Workflow("in", <<Rule(c1, t1), Rule(c2, t2)>>, "A")>> :
        c1 \in WideConditionsOn({"x", "a"}), c2 \in WideConditionsOn({"x"}),
        t1 \in {"A", "R"}, t2 \in {"A", "R"}}

TablesWideWorkflows ==
    {<<Workflow("in", <<Rule(c1, "b")>>, "b"), Workflow("b", <<Rule(c3, "A")>>, "R")>> :
        c1 \in WideConditionsOn({"x"}), c3 \in WideConditionsOn({"x", "a"})}

InitWide ==
    /\ maxRange = SmallMax
    /\ workflows \in TablesWideConditions \cup TablesWideWorkflows
    /\ parts = <<>>
    /\ Start2
    /\ Idle1
    /\ IdleA

SpecWide == InitWide /\ [][NextRange]_vars

(***************************************************************************)
(* What a box denotes, and the shape of a table.                           *)
(***************************************************************************)
\* every record of the universe
Records ==
    {Part(vx, vm, va, vs) :
        vx \in MIN_RANGE..maxRange, vm \in MIN_RANGE..maxRange,
        va \in MIN_RANGE..maxRange, vs \in MIN_RANGE..maxRange}

InRanges(v, ranges) ==
    \E i \in DOMAIN ranges : ranges[i].min <= v /\ v <= ranges[i].max

\* the records a box denotes: each attribute lies in one of its intervals
Denotes(box) ==
    {p \in Records : \A c \in Category : InRanges(p[c], box[c])}

RECURSIVE SumOfCardinalities(_)
SumOfCardinalities(ranges) ==
    IF ranges = <<>> THEN 0
    ELSE (Head(ranges).max - Head(ranges).min + 1)
         + SumOfCardinalities(Tail(ranges))

\* the volume of a box: the product over the attributes of the summed
\* cardinalities of the attribute's intervals
BoxVolume(box) ==
    SumOfCardinalities(box.x) * SumOfCardinalities(box.m)
    * SumOfCardinalities(box.a) * SumOfCardinalities(box.s)

RECURSIVE SumVolumes(_)
SumVolumes(pairs) ==
    IF pairs = <<>> THEN I64(0)
    ELSE I64Add(possibilities_ranges(Head(pairs).ranges), SumVolumes(Tail(pairs)))

TableNames(ws) == {ws[i].name : i \in DOMAIN ws}

TargetsOf(w) ==
    {w.conditions[i].next : i \in DOMAIN w.conditions} \cup {w.fallback}

\* every target is a sink or a workflow of the table
Resolved(ws) ==
    \A i \in DOMAIN ws : TargetsOf(ws[i]) \subseteq ({"A", "R"} \cup TableNames(ws))

RECURSIVE ReachableIn(_, _, _)
ReachableIn(ws, from, n) ==
    IF n = 0 THEN from
    ELSE ReachableIn(ws,
                     from \cup UNION {TargetsOf(ws[i]) :
                                         i \in {j \in DOMAIN ws : ws[j].name \in from}},
                     n - 1)

\* no workflow can reach itself
Acyclic(ws) ==
    \A i \in DOMAIN ws : ws[i].name \notin ReachableIn(ws, TargetsOf(ws[i]), Len(ws))

(***************************************************************************)
(* C1  Concrete/range consistency: on an acyclic table whose targets all   *)
(* resolve, the total solve2 returns equals the number of records of the   *)
(* universe that apply_workflows accepts.                                  *)
(***************************************************************************)
C1_ConcreteRangeConsistency ==
    (pc2 = "done" /\ Acyclic(workflows) /\ Resolved(workflows))
    => result2 = I64(Cardinality({p \in Records :
                                     apply_workflows(p, workflows) = "Ok(true)"}))

(***************************************************************************)
(* C2  Disjoint coverage: the volumes of the pairs one pass over a         *)
(* workflow emits for a box sum to the volume of that box.                 *)
(***************************************************************************)
C2_DisjointCoverage ==
    pc2 = "push"
    => SumVolumes(Pushed(popRanges2, results2)) = possibilities_ranges(popRanges2)

(***************************************************************************)
(* C3  Step partition: the sub-box matched by a condition and the          *)
(* remainder carried past it are disjoint, and together denote exactly the *)
(* remainder carried into the condition.                                   *)
(***************************************************************************)
C3_StepPartition ==
    [][WalkCondition =>
        LET matched == results2'[Len(results2')].ranges
        IN  /\ Denotes(matched) \cap Denotes(invalid_ranges') = {}
            /\ Denotes(matched) \cup Denotes(invalid_ranges') = Denotes(invalid_ranges)]_vars

(***************************************************************************)
(* C4  The volume of a box is the product over the four attributes of the  *)
(* summed cardinalities of the attribute's intervals, and zero when a list *)
(* is empty: stated of the volumes solve2 computes for the boxes it holds. *)
(***************************************************************************)
C4_VolumeIsProductOfSums ==
    \A i \in DOMAIN stack2 :
        LET box == stack2[i].ranges
        IN  /\ possibilities_ranges(box) = I64(BoxVolume(box))
            /\ (\E c \in Category : box[c] = <<>>) => possibilities_ranges(box) = I64(0)

(***************************************************************************)
(* C5  Empty-box short-circuit: no box on the worklist has zero volume:    *)
(* each denotes a record and none of its attribute lists is empty.         *)
(***************************************************************************)
C5_NoEmptyBoxOnWorklist ==
    \A i \in DOMAIN stack2 :
        /\ \A c \in Category : stack2[i].ranges[c] # <<>>
        /\ Denotes(stack2[i].ranges) # {}

(***************************************************************************)
(* SpecFixture: the table and the records of the tests, universe 1..4000.  *)
(* test_solve1_example and test_solve2_example are separate tests of one   *)
(* binary, which the test harness runs on parallel threads.                *)
(***************************************************************************)
FixtureWorkflows ==
    <<Workflow("px", <<Rule(Condition("a", "LessThan", 2006), "qkq"),
                       Rule(Condition("m", "GreaterThan", 2090), "A")>>, "rfg"),
      Workflow("pv", <<Rule(Condition("a", "GreaterThan", 1716), "R")>>, "A"),
      Workflow("lnx", <<Rule(Condition("m", "GreaterThan", 1548), "A")>>, "A"),
      Workflow("rfg", <<Rule(Condition("s", "LessThan", 537), "gd"),
                        Rule(Condition("x", "GreaterThan", 2440), "R")>>, "A"),
      Workflow("qs", <<Rule(Condition("s", "GreaterThan", 3448), "A")>>, "lnx"),
      Workflow("qkq", <<Rule(Condition("x", "LessThan", 1416), "A")>>, "crn"),
      Workflow("crn", <<Rule(Condition("x", "GreaterThan", 2662), "A")>>, "R"),
      Workflow("in", <<Rule(Condition("s", "LessThan", 1351), "px")>>, "qqz"),
      Workflow("qqz", <<Rule(Condition("s", "GreaterThan", 2770), "qs"),
                        Rule(Condition("m", "LessThan", 1801), "hdj")>>, "R"),
      Workflow("gd", <<Rule(Condition("a", "GreaterThan", 3333), "R")>>, "R"),
      Workflow("hdj", <<Rule(Condition("m", "GreaterThan", 838), "A")>>, "pv")>>

FixtureParts ==
    <<Part(787, 2655, 1222, 2876),
      Part(1679, 44, 2067, 496),
      Part(2036, 264, 79, 2244),
      Part(2461, 1339, 466, 291),
      Part(2127, 1623, 2188, 1013)>>

InitFixture ==
    /\ maxRange = MAX_RANGE
    /\ workflows = FixtureWorkflows
    /\ parts = FixtureParts
    /\ Start1
    /\ Start2
    /\ IdleA

SpecFixture == InitFixture /\ [][Next]_vars

(***************************************************************************)
(* SpecAlgebra: the range algebra applied to every valid interval of the   *)
(* universe 1..AlgebraMax and to every condition whose threshold runs from *)
(* below the universe to above it.                                         *)
(***************************************************************************)
AlgebraMax == 14

ValidRanges ==
    {r \in [min : MIN_RANGE..maxRange, max : MIN_RANGE..maxRange] : r.min <= r.max}

\* the conditions Condition::from_str can return, thresholds near the universe
AlgebraConditions ==
    {Condition(c, cmp, v) :
        c \in Category, cmp \in Comparison, v \in (MIN_RANGE - 3)..(maxRange + 3)}

InitAlgebra ==
    /\ maxRange = AlgebraMax
    /\ workflows = <<>>
    /\ parts = <<>>
    /\ Idle1
    /\ Idle2
    /\ \/ pcA = "arg" /\ argA \in ValidRanges
       \/ pcA = "cond" /\ argA \in AlgebraConditions
    /\ outA = <<>>

ApplyOpposite ==
    /\ pcA = "arg"
    /\ outA' = opposite(argA)
    /\ pcA' = "out"
    /\ UNCHANGED <<maxRange, workflows, parts, argA, vars1, vars2>>

\* the fold apply_a_workflow2 runs on one attribute's remainder, started
\* from the whole universe: the remainder is intersected with the opposite
\* of each range in turn
RECURSIVE OppositeOfAll(_, _)
OppositeOfAll(acc, ranges) ==
    IF ranges = <<>> THEN acc
    ELSE OppositeOfAll(intersect_ranges_ranges(acc, opposite(Head(ranges))),
                       Tail(ranges))

\* opposite of every interval of opposite(argA), intersected
ApplyOppositeTwice ==
    /\ pcA = "arg"
    /\ outA' = OppositeOfAll(<<DefaultRange>>, opposite(argA))
    /\ pcA' = "out_twice"
    /\ UNCHANGED <<maxRange, workflows, parts, argA, vars1, vars2>>

ApplyToRange ==
    /\ pcA = "cond"
    /\ outA' = to_range(argA)
    /\ pcA' = "out_range"
    /\ UNCHANGED <<maxRange, workflows, parts, argA, vars1, vars2>>

\* the opposite apply_a_workflow2 takes of a condition's range
ApplyToRangeOpposite ==
    /\ pcA = "cond"
    /\ outA' = opposite(to_range(argA))
    /\ pcA' = "out_range_opposite"
    /\ UNCHANGED <<maxRange, workflows, parts, argA, vars1, vars2>>

NextAlgebra ==
    \/ ApplyOpposite
    \/ ApplyOppositeTwice
    \/ ApplyToRange
    \/ ApplyToRangeOpposite

SpecAlgebra == InitAlgebra /\ [][NextAlgebra]_vars

(***************************************************************************)
(* Text and parsing.  A &str is a sequence of one-character strings; an    *)
(* Option is <<>> or <<v>>, a Result is [ok |-> v] or [err |-> e].  The    *)
(* integers of the inputs are short, so the overflow error of              *)
(* parse::<i64>() is not modelled.                                         *)
(***************************************************************************)
\* String::from, to_string
RECURSIVE to_string(_)
to_string(s) == IF s = <<>> THEN "" ELSE Head(s) \o to_string(Tail(s))

RECURSIVE FindFrom(_, _, _)
FindFrom(s, ch, k) ==
    IF k > Len(s) THEN 0
    ELSE IF s[k] = ch THEN k
    ELSE FindFrom(s, ch, k + 1)

\* str::find(char): the position of the first occurrence, 0 for None
Find(s, ch) == FindFrom(s, ch, 1)

strip_prefix(s, ch) == IF s # <<>> /\ s[1] = ch THEN <<Tail(s)>> ELSE <<>>

strip_suffix(s, ch) ==
    IF s # <<>> /\ s[Len(s)] = ch THEN <<SubSeq(s, 1, Len(s) - 1)>> ELSE <<>>

\* str::split(char): always at least one piece
RECURSIVE split(_, _)
split(s, ch) ==
    LET k == Find(s, ch)
    IN  IF k = 0 THEN <<s>>
        ELSE <<SubSeq(s, 1, k - 1)>> \o split(SubSeq(s, k + 1, Len(s)), ch)

split_once(s, ch) ==
    LET k == Find(s, ch)
    IN  IF k = 0 THEN <<>>
        ELSE <<[left |-> SubSeq(s, 1, k - 1), right |-> SubSeq(s, k + 1, Len(s))]>>

Digits == <<"0", "1", "2", "3", "4", "5", "6", "7", "8", "9">>

IsDigit(ch) == \E d \in DOMAIN Digits : Digits[d] = ch

DigitValue(ch) == (CHOOSE d \in DOMAIN Digits : Digits[d] = ch) - 1

RECURSIVE DigitsValue(_, _)
DigitsValue(s, acc) ==
    IF s = <<>> THEN acc
    ELSE DigitsValue(Tail(s), acc * 10 + DigitValue(Head(s)))

\* the decimal digits of i64::MAX; the magnitude of i64::MIN ends in 8
I64MaxDigits ==
    <<"9", "2", "2", "3", "3", "7", "2", "0", "3", "6", "8", "5", "4", "7",
      "7", "5", "8", "0", "7">>

RECURSIVE StripZeros(_)
StripZeros(digits) ==
    IF Len(digits) > 1 /\ digits[1] = "0" THEN StripZeros(Tail(digits)) ELSE digits

\* a <= b for two digit strings of one length
RECURSIVE DigitsLeq(_, _)
DigitsLeq(a, b) ==
    IF a = <<>> THEN TRUE
    ELSE IF a[1] # b[1] THEN DigitValue(a[1]) < DigitValue(b[1])
    ELSE DigitsLeq(Tail(a), Tail(b))

\* the magnitude written by `digits` does not exceed the one written by `limit`
FitsI64(digits, limit) ==
    LET d == StripZeros(digits)
    IN  \/ Len(d) < Len(limit)
        \/ Len(d) = Len(limit) /\ DigitsLeq(d, limit)

\* str::parse::<i64>(): an optional sign, then at least one digit, and a
\* value inside the i64 range
parse_i64(s) ==
    LET digits == IF s # <<>> /\ s[1] \in {"+", "-"} THEN Tail(s) ELSE s
    IN  IF digits = <<>> \/ \E k \in DOMAIN digits : ~IsDigit(digits[k])
        THEN [err |-> "ParseIntError"]
        ELSE IF ~FitsI64(digits,
                         IF s[1] = "-"
                         THEN [I64MaxDigits EXCEPT ![Len(I64MaxDigits)] = "8"]
                         ELSE I64MaxDigits)
        THEN [err |-> "ParseIntError"]
        ELSE [ok |-> IF s[1] = "-" THEN 0 - DigitsValue(digits, 0)
                     ELSE DigitsValue(digits, 0)]

\* impl TryFrom<char> for Category
Category_try_from(value) ==
    IF value \in Category THEN [ok |-> value] ELSE [err |-> "invalid category"]

\* impl TryFrom<char> for Comparison
Comparison_try_from(value) ==
    CASE value = "<" -> [ok |-> "LessThan"]
      [] value = ">" -> [ok |-> "GreaterThan"]
      [] OTHER -> [err |-> "invalid comparison"]

\* impl FromStr for Condition
Condition_from_str(s) ==
    IF Len(s) < 1 THEN [err |-> "missing category"]
    ELSE LET category == Category_try_from(s[1])
         IN  IF "err" \in DOMAIN category THEN category
             ELSE IF Len(s) < 2 THEN [err |-> "missing comparison"]
             ELSE LET comparison == Comparison_try_from(s[2])
                  IN  IF "err" \in DOMAIN comparison THEN comparison
                      ELSE LET value == parse_i64(SubSeq(s, 3, Len(s)))
                           IN  IF "err" \in DOMAIN value THEN value
                               ELSE [ok |-> Condition(category.ok, comparison.ok,
                                                      value.ok)]

\* the collect of Workflow::from_str with the pairs in reverse order
RECURSIVE CollectConditionsReversed(_, _)
CollectConditionsReversed(strs, acc) ==
    IF strs = <<>> THEN [ok |-> acc]
    ELSE LET condition_and_name == split(Head(strs), ":")
         IN  IF Len(condition_and_name) < 2 THEN [err |-> "missing name"]
             ELSE LET condition == Condition_from_str(condition_and_name[1])
                  IN  IF "err" \in DOMAIN condition THEN condition
                      ELSE CollectConditionsReversed(
                               Tail(strs),
                               <<Rule(condition.ok, to_string(condition_and_name[2]))>>
                                   \o acc)

\* the map closure of Workflow::from_str collected into a Result: the first
\* error ends the collection
RECURSIVE CollectConditions(_, _)
CollectConditions(strs, acc) ==
    IF strs = <<>> THEN [ok |-> acc]
    ELSE LET condition_and_name == split(Head(strs), ":")
         IN  IF Len(condition_and_name) < 2 THEN [err |-> "missing name"]
             ELSE LET condition == Condition_from_str(condition_and_name[1])
                  IN  IF "err" \in DOMAIN condition THEN condition
                      ELSE CollectConditions(
                               Tail(strs),
                               Append(acc, Rule(condition.ok,
                                                to_string(condition_and_name[2]))))

\* impl FromStr for Workflow.  take_while_ref keeps every piece whose
\* position is neither Last nor Only, the next() after it is the last piece.
Workflow_from_str(s) ==
    LET brackets == Find(s, "{")
    IN  IF brackets = 0 THEN [err |-> "missing '{'"]
        ELSE LET name == SubSeq(s, 1, brackets - 1)
                 rest == SubSeq(s, brackets, Len(s))
                 inner == strip_prefix(rest, "{")
             IN  IF inner = <<>> THEN [err |-> "missing '{'"]
                 ELSE LET conditions_str == strip_suffix(inner[1], "}")
                      IN  IF conditions_str = <<>> THEN [err |-> "missing '}'"]
                          ELSE LET pieces == split(conditions_str[1], ",")
                                   conditions ==
                                       CollectConditions(
                                           SubSeq(pieces, 1, Len(pieces) - 1), <<>>)
                               IN  IF "err" \in DOMAIN conditions THEN conditions
                                   ELSE [ok |-> Workflow(to_string(name),
                                                         conditions.ok,
                                                         to_string(pieces[Len(pieces)]))]

\* impl Default for Part
DefaultPart == [x |-> 0, m |-> 0, a |-> 0, s |-> 0]

\* the try_fold with every struct update taken from the default record
RECURSIVE TryFoldPartFromDefault(_, _)
TryFoldPartFromDefault(kvs, part) ==
    IF kvs = <<>> THEN [ok |-> part]
    ELSE LET kv == split_once(Head(kvs), "=")
         IN  IF kv = <<>> THEN [err |-> "missing '='"]
             ELSE IF kv[1].left = <<>> THEN [err |-> "missing category"]
             ELSE LET category == Category_try_from(kv[1].left[1])
                  IN  IF "err" \in DOMAIN category THEN category
                      ELSE LET value == parse_i64(kv[1].right)
                           IN  IF "err" \in DOMAIN value THEN value
                               ELSE TryFoldPartFromDefault(
                                        Tail(kvs),
                                        [[x |-> 0, m |-> 0, a |-> 0, s |-> 0]
                                            EXCEPT ![category.ok] = value.ok])

\* the try_fold of Part::from_str
RECURSIVE TryFoldPart(_, _)
TryFoldPart(kvs, part) ==
    IF kvs = <<>> THEN [ok |-> part]
    ELSE LET kv == split_once(Head(kvs), "=")
         IN  IF kv = <<>> THEN [err |-> "missing '='"]
             ELSE IF kv[1].left = <<>> THEN [err |-> "missing category"]
             ELSE LET category == Category_try_from(kv[1].left[1])
                  IN  IF "err" \in DOMAIN category THEN category
                      ELSE LET value == parse_i64(kv[1].right)
                           IN  IF "err" \in DOMAIN value THEN value
                               ELSE TryFoldPart(Tail(kvs),
                                                [part EXCEPT ![category.ok] = value.ok])

\* impl FromStr for Part
Part_from_str(s) ==
    LET opened == strip_prefix(s, "{")
    IN  IF opened = <<>> THEN [err |-> "missing '{'"]
        ELSE LET closed == strip_suffix(opened[1], "}")
             IN  IF closed = <<>> THEN [err |-> "missing '}'"]
                 ELSE TryFoldPart(split(closed[1], ","), DefaultPart)

\* map(|s| s.parse::<Workflow>()).collect::<Result<Vec<_>, _>>()
RECURSIVE CollectWorkflows(_, _)
CollectWorkflows(lines, acc) ==
    IF lines = <<>> THEN [ok |-> acc]
    ELSE LET workflow == Workflow_from_str(Head(lines))
         IN  IF "err" \in DOMAIN workflow THEN workflow
             ELSE CollectWorkflows(Tail(lines), Append(acc, workflow.ok))

\* the collect of the records with the list in reverse order
RECURSIVE CollectPartsReversed(_, _)
CollectPartsReversed(lines, acc) ==
    IF lines = <<>> THEN [ok |-> acc]
    ELSE LET part == Part_from_str(Head(lines))
         IN  IF "err" \in DOMAIN part THEN part
             ELSE CollectPartsReversed(Tail(lines), <<part.ok>> \o acc)

\* map(|s| s.parse::<Part>()).collect::<Result<Vec<_>, _>>()
RECURSIVE CollectParts(_, _)
CollectParts(lines, acc) ==
    IF lines = <<>> THEN [ok |-> acc]
    ELSE LET part == Part_from_str(Head(lines))
         IN  IF "err" \in DOMAIN part THEN part
             ELSE CollectParts(Tail(lines), Append(acc, part.ok))

\* the position of the first empty line, Len(lines) + 1 when there is none
FirstEmpty(lines) ==
    LET k == Find(lines, <<>>) IN IF k = 0 THEN Len(lines) + 1 ELSE k

\* parse: take_while consumes the lines up to the first empty one and that
\* line; the second map gets what is left
parse(lines) ==
    LET k == FirstEmpty(lines)
        table == CollectWorkflows(SubSeq(lines, 1, k - 1), <<>>)
    IN  IF "err" \in DOMAIN table THEN table
        ELSE LET records == CollectParts(SubSeq(lines, k + 1, Len(lines)), <<>>)
             IN  IF "err" \in DOMAIN records THEN records
                 ELSE [ok |-> [workflows |-> table.ok, parts |-> records.ok]]

(***************************************************************************)
(* The input grammar: name{cond:target,...,fallback} and                   *)
(* {x=<int>,m=<int>,a=<int>,s=<int>}, written out for the values of the    *)
(* data model.                                                             *)
(***************************************************************************)
NamePool ==
    {<<"p", "x">>,
     <<"p", "v">>,
     <<"l", "n", "x">>,
     <<"r", "f", "g">>,
     <<"q", "s">>,
     <<"q", "k", "q">>,
     <<"c", "r", "n">>,
     <<"i", "n">>,
     <<"q", "q", "z">>,
     <<"g", "d">>,
     <<"h", "d", "j">>,
     <<"A">>,
     <<"R">>,
     <<"b">>,
     <<"z", "z">>}

CharsOf(name) == CHOOSE s \in NamePool : to_string(s) = name

RECURSIVE FormatNat(_)
FormatNat(n) ==
    IF n < 10 THEN <<Digits[n + 1]>>
    ELSE FormatNat(n \div 10) \o <<Digits[(n % 10) + 1]>>

FormatInt(n) == IF n < 0 THEN <<"-">> \o FormatNat(0 - n) ELSE FormatNat(n)

FormatCondition(condition) ==
    <<condition.category,
      IF condition.comparison = "LessThan" THEN "<" ELSE ">">>
    \o FormatInt(condition.value)

RECURSIVE FormatRules(_)
FormatRules(conditions) ==
    IF conditions = <<>> THEN <<>>
    ELSE FormatCondition(Head(conditions).condition) \o <<":">>
         \o CharsOf(Head(conditions).next) \o <<",">>
         \o FormatRules(Tail(conditions))

FormatWorkflow(workflow) ==
    CharsOf(workflow.name) \o <<"{">> \o FormatRules(workflow.conditions)
    \o CharsOf(workflow.fallback) \o <<"}">>

FormatPart(part) ==
    <<"{", "x", "=">> \o FormatInt(part.x) \o <<",", "m", "=">> \o FormatInt(part.m)
    \o <<",", "a", "=">> \o FormatInt(part.a) \o <<",", "s", "=">> \o FormatInt(part.s)
    \o <<"}">>

(***************************************************************************)
(* SpecParse: the parsers applied to the text of the tests, to the lines   *)
(* the grammar gives for small workflows and records, to malformed lines,  *)
(* and to every input of at most MaxLines lines drawn from a pool of good, *)
(* malformed and empty lines.                                              *)
(***************************************************************************)
MaxLines == 4

\* const WORKFLOW, split into lines
WORKFLOW ==
    <<<<"p", "x", "{", "a", "<", "2", "0", "0", "6", ":", "q", "k", "q",
        ",", "m", ">", "2", "0", "9", "0", ":", "A", ",", "r", "f", "g", "}">>,
      <<"p", "v", "{", "a", ">", "1", "7", "1", "6", ":", "R", ",", "A", "}">>,
      <<"l", "n", "x", "{", "m", ">", "1", "5", "4", "8", ":", "A", ",",
        "A", "}">>,
      <<"r", "f", "g", "{", "s", "<", "5", "3", "7", ":", "g", "d", ",",
        "x", ">", "2", "4", "4", "0", ":", "R", ",", "A", "}">>,
      <<"q", "s", "{", "s", ">", "3", "4", "4", "8", ":", "A", ",", "l",
        "n", "x", "}">>,
      <<"q", "k", "q", "{", "x", "<", "1", "4", "1", "6", ":", "A", ",",
        "c", "r", "n", "}">>,
      <<"c", "r", "n", "{", "x", ">", "2", "6", "6", "2", ":", "A", ",",
        "R", "}">>,
      <<"i", "n", "{", "s", "<", "1", "3", "5", "1", ":", "p", "x", ",",
        "q", "q", "z", "}">>,
      <<"q", "q", "z", "{", "s", ">", "2", "7", "7", "0", ":", "q", "s",
        ",", "m", "<", "1", "8", "0", "1", ":", "h", "d", "j", ",", "R", "}">>,
      <<"g", "d", "{", "a", ">", "3", "3", "3", "3", ":", "R", ",", "R", "}">>,
      <<"h", "d", "j", "{", "m", ">", "8", "3", "8", ":", "A", ",", "p",
        "v", "}">>>>

\* const PARTS, split into lines
PARTS ==
    <<<<"{", "x", "=", "7", "8", "7", ",", "m", "=", "2", "6", "5", "5",
        ",", "a", "=", "1", "2", "2", "2", ",", "s", "=", "2", "8", "7",
        "6", "}">>,
      <<"{", "x", "=", "1", "6", "7", "9", ",", "m", "=", "4", "4", ",",
        "a", "=", "2", "0", "6", "7", ",", "s", "=", "4", "9", "6", "}">>,
      <<"{", "x", "=", "2", "0", "3", "6", ",", "m", "=", "2", "6", "4",
        ",", "a", "=", "7", "9", ",", "s", "=", "2", "2", "4", "4", "}">>,
      <<"{", "x", "=", "2", "4", "6", "1", ",", "m", "=", "1", "3", "3",
        "9", ",", "a", "=", "4", "6", "6", ",", "s", "=", "2", "9", "1", "}">>,
      <<"{", "x", "=", "2", "1", "2", "7", ",", "m", "=", "1", "6", "2",
        "3", ",", "a", "=", "2", "1", "8", "8", ",", "s", "=", "1", "0",
        "1", "3", "}">>>>

MalformedWorkflowLines ==
    {<<"i", "n", "{", "a", "<", "2", ":", "A", ",", "R">>,
     <<"i", "n", " ", "a", "<", "2", ":", "A", ",", "R", "}">>,
     <<"i", "n", "{", "a", "<", "2", ",", "R", "}">>,
     <<"i", "n", "{", "q", "<", "2", ":", "A", ",", "R", "}">>,
     <<"i", "n", "{", "a", "=", "2", ":", "A", ",", "R", "}">>,
     <<"i", "n", "{", "a", "<", ":", "A", ",", "R", "}">>,
     <<"i", "n", "{", "a", "<", "2", "x", ":", "A", ",", "R", "}">>,
     <<"i", "n", "{", ":", "A", ",", "R", "}">>,
     <<"i", "n", "{", "a", ":", "A", ",", "R", "}">>,
     <<"i", "n", "{", "a", "<", "-", ":", "A", ",", "R", "}">>}

MalformedPartLines ==
    {<<"x", "=", "1", ",", "m", "=", "2", ",", "a", "=", "3", ",", "s", "=",
       "4", "}">>,
     <<"{", "x", "=", "1", ",", "m", "=", "2", ",", "a", "=", "3", ",", "s",
       "=", "4">>,
     <<"{", "x", "=", "1", ",", "m", "2", ",", "a", "=", "3", ",", "s", "=",
       "4", "}">>,
     <<"{", "x", "=", "1", ",", "=", "2", ",", "a", "=", "3", ",", "s", "=",
       "4", "}">>,
     <<"{", "x", "=", "1", ",", "q", "=", "2", ",", "a", "=", "3", ",", "s",
       "=", "4", "}">>,
     <<"{", "x", "=", "1", ",", "m", "=", ",", "a", "=", "3", ",", "s", "=",
       "4", "}">>,
     <<"{", "x", "=", "1", ",", "m", "=", "2", " ", ",", "a", "=", "3", ",",
       "s", "=", "4", "}">>,
     <<"{", "}">>}

WorkflowPool ==
    {t[1] : t \in TablesTwoConditions}
    \cup {Workflow("in", <<>>, "A"), Workflow("b", <<>>, "zz"),
          Workflow("b", <<Rule(Condition("s", "GreaterThan", 0 - 12), "zz")>>, "in")}

\* the line the grammar gives for each workflow of the pool
WorkflowLines == {FormatWorkflow(w) : w \in WorkflowPool}

PartLinePool ==
    {Part(vx, vm, va, vs) :
        vx \in {0 - 7, 1}, vm \in {0, 44}, va \in {3, 4000}, vs \in {2, 1013}}

LinePool ==
    {<<>>,
     FormatWorkflow(Workflow("in", <<Rule(Condition("a", "LessThan", 2), "b")>>, "R")),
     FormatWorkflow(Workflow("b", <<>>, "A")),
     <<"i", "n", "{", "a", "<", "2", ",", "R", "}">>,
     FormatPart(Part(1, 2, 3, 4)),
     FormatPart(Part(4000, 0, 0 - 7, 12)),
     <<"{", "x", "=", "1", ",", "m", "2", "}">>}

\* key=value pieces of a record line: keys of one and of two characters,
\* signed values, and pieces without '=', without a key, with a letter that
\* is no attribute, with a value that is no integer or is beyond i64::MAX
KeyValuePool ==
    {<<"x", "=", "7">>, <<"m", "=", "-", "2">>, <<"a", "=", "1", "2">>,
     <<"s", "=", "+", "3">>, <<"x", "=", "0">>, <<"m", "=", "0", "4", "4">>,
     <<"x", "q", "=", "5">>,
     <<"m", "2">>, <<"=", "2">>, <<"q", "=", "2">>, <<"m", "=">>,
     <<"m", "=", "2", " ">>, <<"m", "=", "1", "=", "2">>,
     <<"x", "=">> \o [I64MaxDigits EXCEPT ![Len(I64MaxDigits)] = "8"]}

MaxKeys == 3

RECURSIVE JoinPieces(_)
JoinPieces(pieces) ==
    IF Len(pieces) = 1 THEN pieces[1]
    ELSE pieces[1] \o <<",">> \o JoinPieces(Tail(pieces))

\* record lines of one to MaxKeys pieces, in any order, keys left out or
\* repeated
KeyValueLines ==
    {<<"{">> \o JoinPieces(q) \o <<"}">> :
        q \in SeqsUpTo(KeyValuePool, MaxKeys) \ {<<>>}}

\* the input of test_parse: format!("{}\n\n{}", WORKFLOW, PARTS).lines()
FixtureInput == WORKFLOW \o <<<<>>>> \o PARTS

InitParse ==
    /\ maxRange = MAX_RANGE
    /\ workflows = <<>>
    /\ parts = <<>>
    /\ Idle1
    /\ Idle2
    /\ outA = <<>>
    /\ \/ /\ pcA = "line"
          /\ argA \in {WORKFLOW[i] : i \in DOMAIN WORKFLOW}
                      \cup WorkflowLines
                      \cup MalformedWorkflowLines
       \/ /\ pcA = "record"
          /\ argA \in {PARTS[i] : i \in DOMAIN PARTS}
                      \cup {FormatPart(p) : p \in PartLinePool}
                      \cup MalformedPartLines
                      \cup KeyValueLines
       \/ /\ pcA = "input"
          /\ argA \in SeqsUpTo(LinePool, MaxLines) \cup {FixtureInput}

ApplyWorkflowFromStr ==
    /\ pcA = "line"
    /\ outA' = Workflow_from_str(argA)
    /\ pcA' = "out_line"
    /\ UNCHANGED <<maxRange, workflows, parts, argA, vars1, vars2>>

ApplyPartFromStr ==
    /\ pcA = "record"
    /\ outA' = Part_from_str(argA)
    /\ pcA' = "out_record"
    /\ UNCHANGED <<maxRange, workflows, parts, argA, vars1, vars2>>

ApplyParse ==
    /\ pcA = "input"
    /\ outA' = parse(argA)
    /\ pcA' = "out_input"
    /\ UNCHANGED <<maxRange, workflows, parts, argA, vars1, vars2>>

NextParse ==
    \/ ApplyWorkflowFromStr
    \/ ApplyPartFromStr
    \/ ApplyParse

SpecParse == InitParse /\ [][NextParse]_vars

(***************************************************************************)
(* C6  Concrete mode result: solve1 returns the sum of x+m+a+s over        *)
(* exactly the records of its list that apply_workflows accepts; rejected  *)
(* records add nothing; it fails only if some record's evaluation fails.   *)
(***************************************************************************)
RECURSIVE AcceptedSum(_, _)
AcceptedSum(ps, ws) ==
    IF ps = <<>> THEN 0
    ELSE (IF apply_workflows(Head(ps), ws) = "Ok(true)"
          THEN Head(ps).x + Head(ps).m + Head(ps).a + Head(ps).s
          ELSE 0)
         + AcceptedSum(Tail(ps), ws)

C6_Solve1SumsAccepted ==
    /\ pc1 = "done" => sum1 = AcceptedSum(parts, workflows)
    /\ pc1 = "err" =>
          \E i \in DOMAIN parts :
              apply_workflows(parts[i], workflows) \notin {"Ok(true)", "Ok(false)"}

\* solve1 has returned for a list holding an accepted and a rejected record
C6_Witness ==
    /\ pc1 = "done"
    /\ Len(parts) = 2
    /\ apply_workflows(parts[1], workflows) = "Ok(false)"
    /\ apply_workflows(parts[2], workflows) = "Ok(true)"
    /\ sum1 > 0

(***************************************************************************)
(* C7  End-to-end fixture: on the 11-workflow table with the 5 sample      *)
(* records solve1 returns 19114 and solve2, over 1..4000 from "in",        *)
(* returns 167409079868000; neither fails.                                 *)
(***************************************************************************)
\* 167409079868000 in limbs: 167 * 10^12 + 4090 * 10^8 + 7986 * 10^4 + 8000
C7_Fixture ==
    /\ pc1 # "err"
    /\ pc2 # "err"
    /\ pc1 = "done" => sum1 = 19114
    /\ pc2 = "done" => result2 = <<8000, 7986, 4090, 167>>

\* both tests have returned
C7_Witness == pc1 = "done" /\ pc2 = "done"

(***************************************************************************)
(* C8  As claimed: a table in which some target names neither a sink nor a *)
(* workflow makes solve1, for any list of records, and solve2 fail.        *)
(***************************************************************************)
C8_AnyDanglingTargetFails ==
    ~Resolved(workflows) => (pc1 # "done" /\ pc2 # "done")

(***************************************************************************)
(* C8  As amended: a missing reference is reported when evaluation reaches *)
(* it.  If the walk of some record of the list (solve1), or of some record *)
(* of the universe (solve2), arrives at a name that is neither a sink nor  *)
(* a workflow, the solver does not return a number.                        *)
(***************************************************************************)
C8_ReachedDanglingTargetFails ==
    /\ pc1 = "done" =>
          \A i \in DOMAIN parts :
              apply_workflows(parts[i], workflows) # "missing workflow"
    /\ pc2 = "done" =>
          \A p \in Records : apply_workflows(p, workflows) # "missing workflow"

\* solve1 has failed on its second record, after accepting the first
C8_Witness ==
    /\ pc1 = "err"
    /\ err1 = "missing workflow"
    /\ Len(parts) = 2
    /\ apply_workflows(parts[1], workflows) = "Ok(true)"
    /\ apply_workflows(parts[2], workflows) = "missing workflow"

(***************************************************************************)
(* C9  When an evaluator pops a name that is neither a sink nor a workflow *)
(* of the table it stops with an error: apply_workflows' turn ends solve1  *)
(* with "missing workflow", solve2's turn ends without a total, and an     *)
(* evaluator that has failed stays failed.                                 *)
(***************************************************************************)
IsMissing(name) ==
    name \notin {"R", "A"} /\ name \notin DOMAIN workflow_get_map(workflows)

C9_MissingWorkflowIsAnError ==
    [][/\ (ApplyWorkflowsStep /\ stack1 # <<>> /\ IsMissing(stack1[Len(stack1)]))
            => (pc1' = "err" /\ err1' = "missing workflow")
       /\ (Solve2Iterate /\ stack2 # <<>> /\ IsMissing(stack2[Len(stack2)].name))
            => pc2' = "err"
       /\ pc1 = "err" => pc1' = "err"
       /\ pc2 = "err" => pc2' = "err"]_vars

\* solve2 has stopped on a missing name with boxes still on its stack
C9_Witness ==
    /\ pc2 = "err"
    /\ IsMissing(popName2)
    /\ stack2 # <<>>

(***************************************************************************)
(* C10  opposite(i) is exactly [MIN_RANGE, i.min - 1] and                  *)
(* [i.max + 1, MAX_RANGE], each only when valid: nothing below i when i    *)
(* starts at the universe's minimum, nothing above it when it ends at the  *)
(* maximum, and nothing that overlaps i.                                   *)
(***************************************************************************)
Complement(i) ==
    SelectSeq(<<Range(MIN_RANGE, i.min - 1), Range(i.max + 1, maxRange)>>,
              LAMBDA r : r.min <= r.max)

C10_OppositeIsComplement ==
    pcA = "out" =>
        /\ outA = Complement(argA)
        /\ \A k \in DOMAIN outA : outA[k].max < argA.min \/ outA[k].min > argA.max

(***************************************************************************)
(* C11  Condition-to-interval agrees with the concrete comparison: for     *)
(* every condition and every value v of the universe, v lies in            *)
(* to_range(condition) exactly when the comparison apply_a_workflow1 makes *)
(* of v against the condition is true.                                     *)
(***************************************************************************)
C11_ToRangeAgreesWithComparison ==
    pcA = "out_range" =>
        \A v \in MIN_RANGE..maxRange :
            (outA.min <= v /\ v <= outA.max) <=> Satisfies(Part(v, v, v, v), argA)

(***************************************************************************)
(* C12  to_range stays inside the universe: for every threshold, at or     *)
(* beyond either edge included, the interval has MIN_RANGE <= min and      *)
(* max <= MAX_RANGE.                                                       *)
(***************************************************************************)
C12_ToRangeClamped ==
    pcA = "out_range" => (MIN_RANGE <= outA.min /\ outA.max <= maxRange)

(***************************************************************************)
(* C13  Boundary: for a threshold exactly at the universe's minimum or     *)
(* maximum, the complement of the condition's interval holds only valid    *)
(* intervals inside the universe, is empty when every value satisfies the  *)
(* condition, and denotes exactly the values that do not satisfy it.       *)
(***************************************************************************)
C13_BoundaryComplement ==
    (pcA = "out_range_opposite" /\ argA.value \in {MIN_RANGE, maxRange}) =>
        /\ \A k \in DOMAIN outA :
              /\ range_valid(outA[k])
              /\ MIN_RANGE <= outA[k].min
              /\ outA[k].max <= maxRange
        /\ (\A v \in MIN_RANGE..maxRange : Satisfies(Part(v, v, v, v), argA))
              => outA = <<>>
        /\ \A v \in MIN_RANGE..maxRange :
              InRanges(v, outA) <=> ~Satisfies(Part(v, v, v, v), argA)

(***************************************************************************)
(* C14  Idempotence of complement: for every valid interval i of the       *)
(* universe, the opposites of the intervals of opposite(i), intersected,   *)
(* denote exactly the values of i.                                         *)
(***************************************************************************)
C14_ComplementIdempotent ==
    pcA = "out_twice" =>
        \A v \in MIN_RANGE..maxRange :
            InRanges(v, outA) <=> (argA.min <= v /\ v <= argA.max)

(***************************************************************************)
(* C20  One concrete step returns the target of the first condition, in    *)
(* list order, that the record satisfies, even when later conditions are   *)
(* satisfied too, and the workflow's fallback exactly when the record      *)
(* satisfies no condition: stated of every turn of apply_workflows that    *)
(* pops the name of a workflow.                                            *)
(***************************************************************************)
SatisfiedAt(part, workflow) ==
    {k \in DOMAIN workflow.conditions :
        Satisfies(part, workflow.conditions[k].condition)}

C20_FirstMatchWins ==
    [][(ApplyWorkflowsStep /\ stack1 # <<>>
            /\ stack1[Len(stack1)] \in DOMAIN workflow_get_map(workflows))
        => LET workflow == workflow_get_map(workflows)[stack1[Len(stack1)]]
               hits == SatisfiedAt(parts[i1], workflow)
           IN  /\ stack1' # <<>>
               /\ hits = {} => stack1'[Len(stack1')] = workflow.fallback
               /\ hits # {} =>
                     \E k \in hits :
                         /\ \A j \in hits : k <= j
                         /\ stack1'[Len(stack1')] = workflow.conditions[k].next]_vars

\* the record satisfies both conditions of "in", whose targets differ, and
\* the step has produced the first one's target
C20_Witness ==
    /\ pc1 = "loop"
    /\ Len(workflows) = 1
    /\ Len(workflows[1].conditions) = 2
    /\ SatisfiedAt(parts[i1], workflows[1]) = {1, 2}
    /\ workflows[1].conditions[1].next # workflows[1].conditions[2].next
    /\ workflows[1].conditions[1].next # workflows[1].fallback
    /\ stack1 = <<workflows[1].conditions[1].next>>

(***************************************************************************)
(* C15  Worklist order independence: on an acyclic table, whichever        *)
(* pending pair each turn removes, the evaluator returns the total solve2  *)
(* returns in stack order, and fails only where solve2 fails.              *)
(***************************************************************************)
C15_OrderIndependent ==
    /\ pc2 = "done" => (Acyclic(workflows) => solve2(workflows) = [ok |-> result2])
    /\ pc2 = "err" => (Acyclic(workflows) => "err" \in DOMAIN solve2(workflows))

\* a run that took a pair from below the top has returned a total to which
\* more than one box contributed
C15_Witness ==
    /\ pc2 = "done"
    /\ reordered2
    /\ Acyclic(workflows)
    /\ Len(workflows) = 2
    /\ result2 # I64(0)
    /\ rejected2 # I64(0)

(***************************************************************************)
(* C16  Concrete evaluation terminates on acyclic tables: on an acyclic    *)
(* table in which every referenced name (the targets and the entry name    *)
(* "in") is a sink or a workflow, apply_workflows pops no name twice for   *)
(* one record, and every evaluation it starts returns accept or reject.    *)
(***************************************************************************)
ResolvedFromEntry(ws) == Resolved(ws) /\ "in" \in TableNames(ws)

C16_ConcreteTerminates ==
    /\ [][(ApplyWorkflowsStep /\ stack1 # <<>>
              /\ Acyclic(workflows) /\ ResolvedFromEntry(workflows))
           => stack1[Len(stack1)] \notin visited1]_vars
    /\ (pc1 = "loop" /\ Acyclic(workflows) /\ ResolvedFromEntry(workflows))
          ~> (pc1 = "next" /\ stack1 = <<>>)

\* on an acyclic two-workflow table the evaluation of the first record has
\* returned after passing through both workflows
C16_Witness ==
    /\ Acyclic(workflows)
    /\ ResolvedFromEntry(workflows)
    /\ pc1 = "next"
    /\ i1 = 2
    /\ {"in", "b"} \subseteq visited1

(***************************************************************************)
(* C17  Range evaluation terminates on acyclic tables: on an acyclic table *)
(* in which every referenced name (the targets and the entry name "in") is *)
(* a sink or a workflow, the worklist of solve2 eventually becomes empty   *)
(* and solve2 returns a total.                                             *)
(***************************************************************************)
C17_RangeTerminates ==
    (pc2 = "pop" /\ Acyclic(workflows) /\ ResolvedFromEntry(workflows))
        ~> (pc2 = "done" /\ stack2 = <<>>)

\* solve2 has returned on a two-workflow table after emptying a worklist
\* that held boxes for both sinks
C17_Witness ==
    /\ Acyclic(workflows)
    /\ ResolvedFromEntry(workflows)
    /\ Len(workflows) = 2
    /\ pc2 = "done"
    /\ stack2 = <<>>
    /\ ~reordered2
    /\ result2 # I64(0)
    /\ rejected2 # I64(0)

(***************************************************************************)
(* C18  Workflow::from_str on a line name{cond1:target1,...,fallback}      *)
(* yields the workflow whose name is the text before the brace, whose      *)
(* conditions are the pairs in their left-to-right order and whose         *)
(* fallback is the last element; a line with a single element yields no    *)
(* condition and that element as fallback.  Stated for the lines of the    *)
(* tests, and for the line the grammar gives for each small workflow:      *)
(* parsing it yields a workflow of the pool whose line it is.              *)
(***************************************************************************)
C18_WorkflowFromStr ==
    pcA = "out_line" =>
        /\ \A i \in DOMAIN WORKFLOW :
              argA = WORKFLOW[i] => outA = [ok |-> FixtureWorkflows[i]]
        /\ argA \in WorkflowLines =>
              /\ DOMAIN outA = {"ok"}
              /\ outA.ok \in WorkflowPool
              /\ FormatWorkflow(outA.ok) = argA
        /\ (argA \in WorkflowLines /\ Find(argA, ",") = 0) =>
              outA.ok.conditions = <<>>

\* a line with two conditions of different targets has been parsed, and the
\* name, the pairs in order and the fallback are those of the line
C18_Witness ==
    /\ pcA = "out_line"
    /\ argA = WORKFLOW[9]
    /\ "ok" \in DOMAIN outA
    /\ outA.ok.name = "qqz"
    /\ Len(outA.ok.conditions) = 2
    /\ outA.ok.conditions[1].next = "qs"
    /\ outA.ok.conditions[2].next = "hdj"
    /\ outA.ok.fallback = "R"

(***************************************************************************)
(* C19  parse splits its input at the first empty line: the lines before   *)
(* it are parsed as workflows and the lines after it as records whose four *)
(* attributes take the integers written, both lists in input order; if one *)
(* of these lines fails to parse, parse returns an error and no table.     *)
(***************************************************************************)
C19_ParseSplitsAtFirstEmptyLine ==
    /\ pcA = "out_record" =>
          \A p \in PartLinePool \cup {FixtureParts[i] : i \in DOMAIN FixtureParts} :
              argA = FormatPart(p) => outA = [ok |-> p]
    /\ pcA = "out_input" =>
          LET k == IF \E i \in DOMAIN argA : argA[i] = <<>>
                   THEN CHOOSE i \in DOMAIN argA :
                            /\ argA[i] = <<>>
                            /\ \A j \in 1..(i - 1) : argA[j] # <<>>
                   ELSE Len(argA) + 1
              before == [i \in 1..(k - 1) |-> Workflow_from_str(argA[i])]
              after == [i \in 1..(Len(argA) - k) |-> Part_from_str(argA[k + i])]
          IN  IF (\A i \in DOMAIN before : "ok" \in DOMAIN before[i])
                 /\ (\A i \in DOMAIN after : "ok" \in DOMAIN after[i])
              THEN outA = [ok |-> [workflows |-> [i \in DOMAIN before |-> before[i].ok],
                                   parts |-> [i \in DOMAIN after |-> after[i].ok]]]
              ELSE DOMAIN outA = {"err"}
    /\ (pcA = "out_input" /\ argA = FixtureInput) =>
          outA = [ok |-> [workflows |-> FixtureWorkflows, parts |-> FixtureParts]]

\* an input of two workflow lines, an empty line and two different records
\* has been parsed
C19_Witness ==
    /\ pcA = "out_input"
    /\ Len(argA) = 4
    /\ argA[2] = <<>>
    /\ "ok" \in DOMAIN outA
    /\ Len(outA.ok.workflows) = 1
    /\ Len(outA.ok.parts) = 2
    /\ outA.ok.parts[1] = Part(4000, 0, 0 - 7, 12)
    /\ outA.ok.parts[2] = Part(1, 2, 3, 4)

(***************************************************************************)
(* C21  Disjointness: in every box on solve2's worklist and in the         *)
(* remainder apply_a_workflow2 carries between conditions, the intervals   *)
(* of one attribute's list are pairwise disjoint: no value lies in two     *)
(* intervals of the same list.                                             *)
(***************************************************************************)
\* two intervals overlap when the larger minimum is at most the smaller
\* maximum
PairwiseDisjoint(ranges) ==
    \A i \in DOMAIN ranges : \A j \in DOMAIN ranges :
        i # j => ~(Max2(ranges[i].min, ranges[j].min)
                     <= Min2(ranges[i].max, ranges[j].max))

C21_Disjointness ==
    /\ \A i \in DOMAIN stack2 : \A c \in Category :
          PairwiseDisjoint(stack2[i].ranges[c])
    /\ \A c \in Category : PairwiseDisjoint(invalid_ranges[c])

\* a box taken from the worklist with two intervals on x is walked, and the
\* remainder carried past the first condition has two intervals on x
C21_Witness ==
    /\ pc2 = "walk"
    /\ k2 = 2
    /\ Len(popRanges2.x) >= 2
    /\ Len(invalid_ranges.x) >= 2

(***************************************************************************)
(* C22  Interval validity: every interval of every box on solve2's         *)
(* worklist has MIN_RANGE <= min <= max <= MAX_RANGE, and no empty         *)
(* interval (min > max) is stored in the remainder or in the sub-boxes     *)
(* apply_a_workflow2 returns.                                              *)
(***************************************************************************)
C22_IntervalValidity ==
    /\ \A i \in DOMAIN stack2 : \A c \in Category :
          \A k \in DOMAIN stack2[i].ranges[c] :
              /\ MIN_RANGE <= stack2[i].ranges[c][k].min
              /\ stack2[i].ranges[c][k].min <= stack2[i].ranges[c][k].max
              /\ stack2[i].ranges[c][k].max <= maxRange
    /\ \A c \in Category :
          \A k \in DOMAIN invalid_ranges[c] :
              invalid_ranges[c][k].min <= invalid_ranges[c][k].max
    /\ \A i \in DOMAIN results2 : \A c \in Category :
          \A k \in DOMAIN results2[i].ranges[c] :
              results2[i].ranges[c][k].min <= results2[i].ranges[c][k].max

\* sub-boxes were pushed by a workflow one of whose conditions has an
\* interval that leaves the universe
C22_Witness ==
    /\ pc2 = "pop"
    /\ Len(stack2) >= 2
    /\ \E w \in DOMAIN workflows : \E k \in DOMAIN workflows[w].conditions :
          LET r == to_range(workflows[w].conditions[k].condition)
          IN  r.min < MIN_RANGE \/ r.max > maxRange

(***************************************************************************)
(* C24  Frame of a split: handling one condition on attribute c changes    *)
(* only c's list: the matched sub-box and the remainder after the          *)
(* condition both have, for each of the other three attributes, the list   *)
(* the remainder had before the condition.                                 *)
(***************************************************************************)
C24_SplitFrame ==
    [][WalkCondition =>
        LET c == CurrentWorkflow.conditions[k2].condition.category
            matched == results2'[Len(results2')].ranges
        IN  /\ Len(results2') = Len(results2) + 1
            /\ \A d \in Category \ {c} :
                  /\ matched[d] = invalid_ranges[d]
                  /\ invalid_ranges'[d] = invalid_ranges[d]]_vars

\* two conditions on different attributes were handled: the second
\* sub-box carries the first attribute's list as the first condition left
\* it, no longer the whole universe
C24_Witness ==
    /\ pc2 = "walk"
    /\ k2 = 3
    /\ LET c1 == CurrentWorkflow.conditions[1].condition.category
           c2 == CurrentWorkflow.conditions[2].condition.category
       IN  /\ c1 # c2
           /\ invalid_ranges[c1] # <<DefaultRange>>
           /\ results2[2].ranges[c1] = invalid_ranges[c1]

(***************************************************************************)
(* C23  Box-independent splitting refines the specified walk: at every     *)
(* workflow solve2 handles, the sub-boxes it gets by intersecting the      *)
(* results of apply_a_workflow2 with the popped box denote, target by      *)
(* target, the records of the sub-boxes of the walk that starts from the   *)
(* popped box's lists and uses to_interval and complement.  Stated here    *)
(* for tables whose thresholds all lie strictly inside the universe.       *)
(***************************************************************************)
\* [universe.min, value - 1] and [value + 1, universe.max], kept inside the
\* universe
to_interval(condition) ==
    IF condition.comparison = "LessThan"
    THEN Range(MIN_RANGE, Min2(condition.value - 1, maxRange))
    ELSE Range(Max2(condition.value + 1, MIN_RANGE), maxRange)

\* the walk with the remaining lists initialized to the box's lists
RECURSIVE SpecifiedWalk(_, _, _, _)
SpecifiedWalk(conditions, remaining, results, fallback) ==
    IF conditions = <<>>
    THEN Append(results, Pair(fallback, remaining))
    ELSE LET condition == Head(conditions).condition
             c == condition.category
             matched == [remaining EXCEPT
                            ![c] = intersect_ranges_range(remaining[c],
                                                          to_interval(condition))]
             rest == [remaining EXCEPT
                         ![c] = intersect_ranges_ranges(remaining[c],
                                                        Complement(to_interval(condition)))]
         IN  SpecifiedWalk(Tail(conditions), rest,
                           Append(results, Pair(Head(conditions).next, matched)),
                           fallback)

InteriorThresholds(ws) ==
    \A i \in DOMAIN ws : \A k \in DOMAIN ws[i].conditions :
        /\ MIN_RANGE < ws[i].conditions[k].condition.value
        /\ ws[i].conditions[k].condition.value < maxRange

C23_SplittingRefinesWalk ==
    (pc2 = "push" /\ InteriorThresholds(workflows)) =>
        LET walked == SpecifiedWalk(CurrentWorkflow.conditions, popRanges2, <<>>,
                                    CurrentWorkflow.fallback)
        IN  /\ Len(walked) = Len(results2)
            /\ \A i \in DOMAIN results2 :
                  /\ walked[i].name = results2[i].name
                  /\ Denotes(walked[i].ranges)
                        = Denotes(intersect_part_ranges(popRanges2, results2[i].ranges))

(***************************************************************************)
(* C25  Sink handling in solve2: a turn that pops a pair named "R" leaves  *)
(* the total unchanged and only removes that pair; a turn that pops a pair *)
(* named "A" adds that box's volume to the total, removes the pair and     *)
(* pushes nothing; and no step makes the total smaller.                    *)
(***************************************************************************)
\* a <= b for two values in limb form
RECURSIVE I64Leq(_, _)
I64Leq(a, b) ==
    IF Len(a) # Len(b) THEN Len(a) < Len(b)
    ELSE IF a = <<>> THEN TRUE
    ELSE IF a[Len(a)] # b[Len(b)] THEN a[Len(a)] < b[Len(b)]
    ELSE I64Leq(SubSeq(a, 1, Len(a) - 1), SubSeq(b, 1, Len(b) - 1))

PopsSink(name) ==
    /\ Solve2Iterate
    /\ stack2 # <<>>
    /\ stack2[Len(stack2)].name = name

C25_SinkHandling ==
    [][/\ PopsSink("R") =>
            /\ result2' = result2
            /\ stack2' = SubSeq(stack2, 1, Len(stack2) - 1)
       /\ PopsSink("A") =>
            /\ result2' = I64Add(result2, I64(BoxVolume(stack2[Len(stack2)].ranges)))
            /\ stack2' = SubSeq(stack2, 1, Len(stack2) - 1)
       /\ I64Leq(result2, result2')]_vars

(***************************************************************************)
(* C26  Volume conservation: on an acyclic table whose targets and entry   *)
(* name resolve, at every loop head of solve2 and at its return, the total *)
(* plus the volume dropped at "R" plus the volumes of the boxes still on   *)
(* the stack equals the volume of the universe box, and the total does not *)
(* exceed it.  Volumes are taken as solve2 computes them.                  *)
(***************************************************************************)
UniverseVolume ==
    I64Mul(I64Mul(I64Mul(I64(maxRange - MIN_RANGE + 1),
                         maxRange - MIN_RANGE + 1),
                  maxRange - MIN_RANGE + 1),
           maxRange - MIN_RANGE + 1)

C26_VolumeConservation ==
    (pc2 \in {"pop", "done"} /\ Acyclic(workflows) /\ ResolvedFromEntry(workflows)) =>
        /\ I64Add(I64Add(result2, rejected2), SumVolumes(stack2)) = UniverseVolume
        /\ I64Leq(result2, UniverseVolume)

(***************************************************************************)
(* C27  Cyclic tables do not terminate: when the path a record follows     *)
(* from "in" comes back to a workflow it has left, apply_workflows never   *)
(* returns for that record, neither a result nor an error: solve1 stays in *)
(* the loop on that record.                                                *)
(***************************************************************************)
\* the name the record's walk holds k turns after it held `name`
RECURSIVE NameAfter(_, _, _, _)
NameAfter(part, ws, name, k) ==
    IF k = 0 \/ name \in {"R", "A"} \/ name \notin TableNames(ws) THEN name
    ELSE NameAfter(part, ws, apply_a_workflow1(part, workflow_get_map(ws)[name]), k - 1)

\* the walk from `name` comes back to `name`
OnCycle(part, ws, name) ==
    /\ name \notin {"R", "A"}
    /\ name \in TableNames(ws)
    /\ \E k \in 1..Len(ws) : NameAfter(part, ws, name, k) = name

PathEntersCycle(part, ws) ==
    \E j \in 0..Len(ws) : OnCycle(part, ws, NameAfter(part, ws, "in", j))

C27_CyclicNeverReturns ==
    [][(pc1 = "loop" /\ PathEntersCycle(parts[i1], workflows)) =>
            /\ pc1' = "loop"
            /\ i1' = i1
            /\ sum1' = sum1
            /\ err1' = err1
            /\ stack1' # <<>>]_vars

\* the loop is about to pop a name it has popped before for this record
C27_Witness ==
    /\ pc1 = "loop"
    /\ stack1 # <<>>
    /\ stack1[Len(stack1)] \in visited1
    /\ PathEntersCycle(parts[i1], workflows)

(***************************************************************************)
(* C28  solve1 is all-or-nothing on errors: when the walk of some record   *)
(* of the list reaches a name that is neither a sink nor a workflow,       *)
(* solve1 returns the error "missing workflow" and no sum, whatever was    *)
(* accepted before it and whatever follows it; when no record does, it     *)
(* returns Ok.  (A record whose walk enters a cycle keeps solve1 from      *)
(* returning at all; the two leads-to parts are stated for lists without   *)
(* such a record.)                                                         *)
(***************************************************************************)
ReachesMissing(part, ws) ==
    \E j \in 0..Len(ws) :
        LET name == NameAfter(part, ws, "in", j)
        IN  name \notin {"R", "A"} /\ name \notin TableNames(ws)

AnyReachesMissing == \E i \in DOMAIN parts : ReachesMissing(parts[i], workflows)

NoneEntersCycle == \A i \in DOMAIN parts : ~PathEntersCycle(parts[i], workflows)

C28_AllOrNothing ==
    /\ [](pc1 = "err" => (err1 = "missing workflow" /\ AnyReachesMissing))
    /\ [](pc1 = "done" => ~AnyReachesMissing)
    /\ ((pc1 = "next" /\ i1 = 1 /\ NoneEntersCycle /\ AnyReachesMissing)
           ~> (pc1 = "err" /\ err1 = "missing workflow"))
    /\ ((pc1 = "next" /\ i1 = 1 /\ NoneEntersCycle /\ ~AnyReachesMissing)
           ~> pc1 = "done")

\* solve1 has returned the error at the second record, after it had added
\* the first record's sum
C28_Witness ==
    /\ pc1 = "err"
    /\ i1 = 2
    /\ sum1 > 0
    /\ ~ReachesMissing(parts[1], workflows)
    /\ ReachesMissing(parts[2], workflows)

(***************************************************************************)
(* C29  Record parsing accepts incomplete and repeated keys.  A line       *)
(* parses exactly when none of the causes of an error is present; it then  *)
(* gives each attribute the value of the last piece whose key starts with  *)
(* the attribute's letter, and 0 when there is none.                       *)
(***************************************************************************)
MissingBrace(s) == Len(s) < 2 \/ s[1] # "{" \/ s[Len(s)] # "}"

Pieces(s) == split(SubSeq(s, 2, Len(s) - 1), ",")

MissingEquals(piece) == \A k \in DOMAIN piece : piece[k] # "="

ValueOf(piece) == SubSeq(piece, Find(piece, "=") + 1, Len(piece))

\* an optional sign and at least one decimal digit
IsInteger(v) ==
    LET d == IF v # <<>> /\ v[1] \in {"+", "-"} THEN Tail(v) ELSE v
    IN  d # <<>> /\ \A k \in DOMAIN d : IsDigit(d[k])

EmptyKey(piece) == ~MissingEquals(piece) /\ piece[1] = "="

UnknownLetter(piece) ==
    ~MissingEquals(piece) /\ piece[1] # "=" /\ piece[1] \notin Category

NonInteger(piece) == ~MissingEquals(piece) /\ ~IsInteger(ValueOf(piece))

OutsideI64(piece) ==
    /\ ~MissingEquals(piece)
    /\ IsInteger(ValueOf(piece))
    /\ "err" \in DOMAIN parse_i64(ValueOf(piece))

\* the value the last piece for the attribute gives, 0 without such a piece
LastValue(pieces, c) ==
    LET with == {k \in DOMAIN pieces : pieces[k][1] = c}
    IN  IF with = {} THEN 0
        ELSE parse_i64(ValueOf(pieces[CHOOSE k \in with : \A j \in with : j <= k])).ok

LastOccurrenceWins ==
    "ok" \in DOMAIN outA =>
        \A c \in Category : outA.ok[c] = LastValue(Pieces(argA), c)

\* the statement with the four causes it names: a missing brace, a missing
\* '=', an unknown attribute letter, a value that is no integer
C29_OnlyFourCauses ==
    pcA = "out_record" =>
        /\ "err" \in DOMAIN outA <=>
              \/ MissingBrace(argA)
              \/ \E k \in DOMAIN Pieces(argA) :
                    LET piece == Pieces(argA)[k]
                    IN  MissingEquals(piece) \/ UnknownLetter(piece) \/ NonInteger(piece)
        /\ LastOccurrenceWins

\* the statement with the causes of Part::from_str: also a piece without a
\* key and an integer outside the i64 range
C29_LenientRecordParsing ==
    pcA = "out_record" =>
        /\ "err" \in DOMAIN outA <=>
              \/ MissingBrace(argA)
              \/ \E k \in DOMAIN Pieces(argA) :
                    LET piece == Pieces(argA)[k]
                    IN  \/ MissingEquals(piece)
                        \/ EmptyKey(piece)
                        \/ UnknownLetter(piece)
                        \/ NonInteger(piece)
                        \/ OutsideI64(piece)
        /\ LastOccurrenceWins

\* a line parsed with an attribute left out and another given twice with
\* different values
C29_Witness ==
    /\ pcA = "out_record"
    /\ "ok" \in DOMAIN outA
    /\ LET pieces == Pieces(argA)
       IN  /\ \E c \in Category : \A k \in DOMAIN pieces : pieces[k][1] # c
           /\ \E j \in DOMAIN pieces : \E k \in DOMAIN pieces :
                 /\ j < k
                 /\ pieces[j][1] = pieces[k][1]
                 /\ ValueOf(pieces[j]) # ValueOf(pieces[k])
                 /\ outA.ok[pieces[k][1]] # parse_i64(ValueOf(pieces[j])).ok

(***************************************************************************)
(* C30  In apply_workflows the stack holds exactly one name at every loop  *)
(* head: the loop never finds it empty, so the trailing error "no workflow *)
(* found" is never returned, and the only error solve1 passes on is        *)
(* "missing workflow".                                                     *)
(***************************************************************************)
C30_StackHoldsOneName ==
    /\ [](pc1 = "loop" => Len(stack1) = 1)
    /\ [](err1 \in {"", "missing workflow"})
    /\ [][ApplyWorkflowsStep =>
            /\ stack1 # <<>>
            /\ pc1' = "err" => err1' = "missing workflow"
            /\ pc1' = "loop" => Len(stack1') = 1]_vars

\* the loop is at its head after a turn that popped a workflow's name and
\* pushed the next one
C30_Witness ==
    /\ pc1 = "loop"
    /\ visited1 # {}
    /\ Len(stack1) = 1
    /\ stack1[1] \notin visited1

=============================================================================
